---- MODULE Spec2Model ----
(***************************************************************************)
(* A model of the add-on update protocol of addonUpdater:                  *)
(*   addon/globalPlugins/addonUpdater/addonUpdateProtocols.py              *)
(* The check cycle (checkForAddonUpdates, checkForAddonUpdate and the      *)
(* fetchAddonInfo workers) is specification Spec; the download             *)
(* (downloadAddonUpdate) is specification SpecDownload.                    *)
(*                                                                         *)
(* Python strings that the code searches, splits or concatenates are       *)
(* sequences of one-character strings; None is the value PyNone.           *)
(***************************************************************************)
EXTENDS Integers, Sequences, FiniteSets, TLC

\* ------------------------------------------------------------------------
\* Bounds of the model
\* ------------------------------------------------------------------------

\* How many of the add-ons of AddonPool are installed (and not filtered out).
MaxAddons == 2

\* The declared sizes of a download reach MaxChunks full chunks (plus or minus one byte).
MaxChunks == 2

\* ------------------------------------------------------------------------
\* Python values
\* ------------------------------------------------------------------------

PyNone == <<"<None>">>

Min2(a, b) == IF a <= b THEN a ELSE b

\* s[i:] of Python, i counted from 0
DropFirst(s, n) == IF n >= Len(s) THEN <<>> ELSE SubSeq(s, n + 1, Len(s))

\* TRUE iff p occurs in s at position i (1-based)
OccursAt(s, p, i) ==
    /\ i >= 1
    /\ i + Len(p) - 1 <= Len(s)
    /\ \A k \in 1..Len(p) : s[i + k - 1] = p[k]

\* The positions at which p occurs in s
Occurrences(s, p) == {i \in 1..(Len(s) + 1) : OccursAt(s, p, i)}

\* Python: p in s
StrIn(p, s) == Occurrences(s, p) # {}

SetMin(S) == CHOOSE x \in S : \A y \in S : x <= y

SetMax(S) == CHOOSE x \in S : \A y \in S : x >= y

\* Python: s.find(p) + 1, 0 when p does not occur
StrFind(s, p) == IF StrIn(p, s) THEN SetMin(Occurrences(s, p)) ELSE 0

\* Python: s.split(sep)[1], for a separator that occurs in s: the text between
\* the first occurrence of sep and the next one after it (or the end of s).
SplitSecond(s, sep) ==
    LET rest == DropFirst(s, StrFind(s, sep) + Len(sep) - 1)
        nxt == StrFind(rest, sep)
    IN IF nxt = 0 THEN rest ELSE SubSeq(rest, 1, nxt - 1)

\* Python: s.split("/")[-1]: the text after the last "/" (all of s without one)
LastSegment(s) ==
    LET slashes == {i \in 1..Len(s) : s[i] = "/"}
    IN IF slashes = {} THEN s ELSE DropFirst(s, SetMax(slashes))

UpperToLower ==
    [c \in {"A", "B", "C", "D", "E", "F", "G", "H", "I", "J", "K", "L", "M",
            "N", "O", "P", "Q", "R", "S", "T", "U", "V", "W", "X", "Y", "Z"} |->
        CASE c = "A" -> "a" [] c = "B" -> "b" [] c = "C" -> "c" [] c = "D" -> "d"
          [] c = "E" -> "e" [] c = "F" -> "f" [] c = "G" -> "g" [] c = "H" -> "h"
          [] c = "I" -> "i" [] c = "J" -> "j" [] c = "K" -> "k" [] c = "L" -> "l"
          [] c = "M" -> "m" [] c = "N" -> "n" [] c = "O" -> "o" [] c = "P" -> "p"
          [] c = "Q" -> "q" [] c = "R" -> "r" [] c = "S" -> "s" [] c = "T" -> "t"
          [] c = "U" -> "u" [] c = "V" -> "v" [] c = "W" -> "w" [] c = "X" -> "x"
          [] c = "Y" -> "y" [] c = "Z" -> "z"]

\* Python: s.lower()
Lower(s) ==
    [i \in 1..Len(s) |-> IF s[i] \in DOMAIN UpperToLower THEN UpperToLower[s[i]] ELSE s[i]]

\* A comparison that looks at the first component only
TupleLeq_FirstOnly(a, b) == a[1] <= b[1]

\* Python's comparison a <= b of two tuples of integers: decided by the first
\* position where they differ, by the lengths when one is a prefix of the other.
TupleLeq(a, b) ==
    LET common == 1..Min2(Len(a), Len(b))
        diff == {i \in common : a[i] # b[i]}
    IN IF diff = {} THEN Len(a) <= Len(b) ELSE a[SetMin(diff)] < b[SetMin(diff)]

\* ------------------------------------------------------------------------
\* Strings of the program
\* ------------------------------------------------------------------------

S_dash == <<"-">>

S_dev == <<"d","e","v">>

S_beta == <<"b","e","t","a">>

S_None == <<"N","o","n","e">>

S_error == <<"e","r","r","o","r">>

S_vocalizer == <<"v","o","c","a","l","i","z","e","r">>

S_nvdaAddon == <<"n","v","d","a","-","a","d","d","o","n">>

S_dotNvdaAddon == <<".">> \o S_nvdaAddon

\* URLs.communityHostedFile
communityHostedFile ==
    <<"h","t","t","p","s",":","/","/","a","d","d","o","n","s",".","n","v","d","a","-",
      "p","r","o","j","e","c","t",".","o","r","g","/","f","i","l","e","s","/">>

\* The add-on names of the model
N_clock == <<"c","l","o","c","k">>

N_eMule == <<"e","M","u","l","e">>

N_newApp == <<"n","e","w","A","p","p">>

N_BrailleExtender == <<"B","r","a","i","l","l","e","E","x","t","e","n","d","e","r">>

N_WeatherPlus == <<"W","e","a","t","h","e","r"," ","P","l","u","s">>

N_VocalizerExpressive ==
    <<"V","o","c","a","l","i","z","e","r"," ","E","x","p","r","e","s","s","i","v","e">>

N_wordNav == <<"w","o","r","d","N","a","v">>

N_lambda == <<"l","a","m","b","d","a">>

\* The built-in add-on keys (the entries of the add-ons of the model)
names2urls ==
    (N_clock :> <<"c","a","c">>) @@ (N_eMule :> <<"e","m">>)
        @@ (N_wordNav :> <<"w","o","r","d","n","a","v">>) @@ (N_lambda :> N_lambda)

addonsWithUpdaters == {N_BrailleExtender, N_WeatherPlus}

\* addonAPIVersion.CURRENT and addonAPIVersion.BACK_COMPAT_TO of the host
CURRENT == <<2022, 1, 0>>

BACK_COMPAT_TO == <<2021, 1, 0>>

\* ------------------------------------------------------------------------
\* Metadata validation and the compatibility gate
\* ------------------------------------------------------------------------

metadataFieldTypes ==
    [summary |-> "str", author |-> "str",
     minimumNVDAVersion |-> "list", lastTestedNVDAVersion |-> "list"]

\* validateAddonMetadata raises KeyError when a required field is missing
validateAddonMetadataRaises(addonMetadata) ==
    \E field \in DOMAIN metadataFieldTypes : field \notin DOMAIN addonMetadata

\* validateAddonMetadata, for a record that has the four required fields
validateAddonMetadata(addonMetadata) ==
    /\ \A field \in DOMAIN metadataFieldTypes :
           addonMetadata[field].type = metadataFieldTypes[field]
    /\ "addonKey" \in DOMAIN addonMetadata => addonMetadata["addonKey"].type = "str"

addonCompatibleAccordingToMetadata(addon, addonMetadata, devUpdatesSet) ==
    IF addon \in devUpdatesSet
    THEN TRUE
    ELSE /\ TupleLeq(addonMetadata["minimumNVDAVersion"].val, CURRENT)
         /\ TupleLeq(BACK_COMPAT_TO, addonMetadata["lastTestedNVDAVersion"].val)

\* ------------------------------------------------------------------------
\* Version extraction
\* ------------------------------------------------------------------------

\* re.search("(?P<name>)-(?P<version>.*).nvda-addon", fileName): the match
\* starts at the first "-" that is followed, after any text and one more
\* character, by "nvda-addon"; the greedy .* ends at the last such place.
VersionMatchEnds(fileName, dash) ==
    {j \in (dash + 1)..Len(fileName) : OccursAt(fileName, S_nvdaAddon, j + 1)}

VersionMatchDashes(fileName) ==
    {i \in 1..Len(fileName) : fileName[i] = "-" /\ VersionMatchEnds(fileName, i) # {}}

\* TRUE iff re.search returns None (the code's except branch)
VersionSearchFails(fileName) == VersionMatchDashes(fileName) = {}

\* groupdict()["version"] of the match
VersionGroup(fileName) ==
    LET dash == SetMin(VersionMatchDashes(fileName))
        end == SetMax(VersionMatchEnds(fileName, dash))
    IN SubSeq(fileName, dash + 1, end - 1)

\* if addon in version: version = version.split(addon)[1][1:]
StripAddonName(addon, version) ==
    IF StrIn(addon, version) THEN DropFirst(SplitSecond(version, addon), 1) ELSE version

\* ------------------------------------------------------------------------
\* The installed add-ons and the remote data of a check cycle
\* ------------------------------------------------------------------------

V_10 == <<"1",".","0">>

V_20 == <<"2",".","0">>

\* The add-ons that can reach resolution, in registry order; the first
\* MaxAddons of them are installed. manifest.get("updateChannel") is
\* channel: absent (PyNone), the string "None", "dev" or another channel.
AddonPool ==
    << [name |-> N_clock, summary |-> "Clock", version |-> V_10, updateChannel |-> PyNone],
       [name |-> N_newApp, summary |-> "New App", version |-> V_10, updateChannel |-> S_dev],
       [name |-> N_eMule, summary |-> "eMule", version |-> V_10, updateChannel |-> S_None],
       [name |-> N_lambda, summary |-> "Lambda", version |-> V_10, updateChannel |-> S_beta] >>

PoolSize == Min2(MaxAddons, Len(AddonPool))

PoolNames == {AddonPool[i].name : i \in 1..PoolSize}

\* addonHandler.getAvailableAddons(): the add-ons of the pool, after an add-on
\* that updates itself, a member of the Vocalizer family, and an add-on that
\* the user has opted out of updates.
AvailableAddons ==
    << [name |-> N_BrailleExtender, summary |-> "Braille Extender", version |-> V_10,
        updateChannel |-> PyNone],
       [name |-> N_VocalizerExpressive, summary |-> "Vocalizer", version |-> V_10,
        updateChannel |-> PyNone],
       [name |-> N_wordNav, summary |-> "Word Nav", version |-> V_10,
        updateChannel |-> PyNone] >>
    \o SubSeq(AddonPool, 1, PoolSize)

\* name-version.nvda-addon
FileName(name, version) == name \o S_dash \o version \o S_dotNvdaAddon

\* The host of the files that the file getter redirects to
MirrorHost == <<"h","t","t","p","s",":","/","/","m","/">>

\* The key that the metadata feed assigns to an add-on, when it assigns one
MetadataKey(name) ==
    CASE name = N_newApp -> <<"n","a","p">>
      [] name = N_eMule -> <<"e","m","u">>
      [] OTHER -> names2urls[name]

\* The keys under which the catalog can list an add-on
BaseKeys(name) ==
    {MetadataKey(name)} \cup (IF name \in DOMAIN names2urls THEN {names2urls[name]} ELSE {})

CatalogKeys(name) ==
    UNION {{k, k \o S_dash \o S_dev, k \o S_dash \o S_beta} : k \in BaseKeys(name)}

\* What the catalog lists for an add-on: nothing, a file URL of the installed
\* version or of a newer one, a bare file name, or a value that is no file
\* (the file getter resolves it).
CatalogKinds(name) ==
    CASE name = N_clock -> {"absent", "same", "new", "bare", "redirect"}
      [] name = N_newApp -> {"absent", "new"}
      [] name = N_eMule -> {"new"}
      [] OTHER -> {"new"}

\* The catalog lists the version of the metadata key as new and the version
\* of the built-in key as installed when the two keys differ.
CatalogValue(name, key, kind) ==
    LET builtinOnly == /\ name \in DOMAIN names2urls
                       /\ MetadataKey(name) # names2urls[name]
                       /\ OccursAt(key, names2urls[name], 1)
                       /\ ~OccursAt(key, MetadataKey(name), 1)
    IN CASE kind = "same" -> communityHostedFile \o FileName(name, V_10)
         [] kind = "new" ->
                communityHostedFile \o FileName(name, IF builtinOnly THEN V_10 ELSE V_20)
         [] kind = "bare" -> FileName(name, V_20)
         [] OTHER -> key

CatalogOwner(key) == CHOOSE name \in PoolNames : key \in CatalogKeys(name)

\* The catalog lists a newer version of the add-on that the user has opted
\* out of updates
OptedOutListing ==
    names2urls[N_wordNav] :> (communityHostedFile \o FileName(N_wordNav, V_20))

CatalogBody(kinds) ==
    [key \in UNION {CatalogKeys(name) : name \in {n \in PoolNames : kinds[n] # "absent"}} |->
        CatalogValue(CatalogOwner(key), key, kinds[CatalogOwner(key)])]
    @@ OptedOutListing

CatalogBodies ==
    {CatalogBody(kinds) :
        kinds \in {f \in [PoolNames -> {"absent", "same", "new", "bare", "redirect"}] :
                      \A n \in PoolNames : f[n] \in CatalogKinds(n)}}

\* The final URLs of the file getter for an add-on
GetterUrls(name) ==
    { MirrorHost \o FileName(name, V_20),
      MirrorHost \o FileName(name, V_10),
      MirrorHost \o name \o S_dotNvdaAddon,
      MirrorHost \o name \o S_dash \o FileName(name, V_20) }

\* Metadata records
StrVal(v) == [type |-> "str", val |-> v]

ListVal(v) == [type |-> "list", val |-> v]

RecordOk(name) ==
    [summary |-> StrVal(name), author |-> StrVal(<<"a">>),
     minimumNVDAVersion |-> ListVal(<<2021, 3, 0>>),
     lastTestedNVDAVersion |-> ListVal(<<2022, 1, 0>>)]

MetadataRecord(name, kind) ==
    CASE kind = "ok" -> RecordOk(name)
      [] kind = "minTooHigh" ->
             [RecordOk(name) EXCEPT !.minimumNVDAVersion = ListVal(<<2022, 2, 0>>)]
      [] kind = "lastTooLow" ->
             [RecordOk(name) EXCEPT !.lastTestedNVDAVersion = ListVal(<<2020, 4, 0>>)]
      [] kind = "wrongType" ->
             [RecordOk(name) EXCEPT !.minimumNVDAVersion = StrVal(<<>>)]
      [] kind = "missingField" ->
             [f \in {"summary", "minimumNVDAVersion", "lastTestedNVDAVersion"} |->
                 RecordOk(name)[f]]
      [] kind = "badKey" ->
             RecordOk(name) @@ [addonKey |-> [type |-> "int", val |-> <<>>]]
      [] kind = "key" ->
             RecordOk(name) @@ [addonKey |-> StrVal(MetadataKey(name))]
      [] kind = "keyMinTooHigh" ->
             [RecordOk(name) EXCEPT !.minimumNVDAVersion = ListVal(<<2022, 2, 0>>)]
                 @@ [addonKey |-> StrVal(MetadataKey(name))]
      [] kind = "keyOfOther" ->
             RecordOk(name) @@ [addonKey |-> StrVal(names2urls[N_clock])]

\* keyOfOther: the feed gives the add-on the key that the built-in table
\* gives to another add-on
AllMetadataKinds ==
    {"absent", "ok", "minTooHigh", "lastTooLow", "wrongType", "missingField", "badKey",
     "key", "keyMinTooHigh", "keyOfOther"}

MetadataKinds(name) ==
    CASE name = N_clock ->
             {"absent", "ok", "minTooHigh", "lastTooLow", "wrongType", "missingField", "badKey"}
      [] name = N_newApp -> {"absent", "key", "keyMinTooHigh", "keyOfOther"}
      [] name = N_eMule -> {"absent", "key"}
      [] OTHER -> {"absent", "ok"}

MetadataBody(kinds) ==
    [section \in {"active"} |->
        [name \in {n \in PoolNames : kinds[n] # "absent"} |-> MetadataRecord(name, kinds[name])]]

\* The JSON objects the metadata feed can return: the empty object, and
\* objects with a record for some of the add-ons
EmptyObject == [key \in {} |-> key]

MetadataBodies ==
    {EmptyObject} \cup
    {MetadataBody(kinds) :
        kinds \in {f \in [PoolNames -> AllMetadataKinds] :
                      /\ \A n \in PoolNames : f[n] \in MetadataKinds(n)
                      \* the feed with the shared key holds that one record
                      /\ \A n \in PoolNames :
                             f[n] = "keyOfOther" =>
                                 \A other \in PoolNames \ {n} : f[other] = "absent"}}

\* ------------------------------------------------------------------------
\* State
\* ------------------------------------------------------------------------

VARIABLES
    secure,         \* globalVars.appArgs.secure
    noUpdates,      \* addonUtils.updateState["noUpdates"]
    devUpdates,     \* addonUtils.updateState["devUpdates"]
    pc,             \* where checkForAddonUpdates / checkForAddonUpdate stands
    fetcher,        \* the addonsFetcher thread: where it stands, the requests it issued
    curAddons,      \* the dict curAddons, in insertion order
    results,        \* the dict results (the catalog)
    addonsData,     \* the dict addonsData (the metadata)
    info,           \* the dict info, in insertion order
    workers,        \* the fetchAddonInfo threads, one per entry of curAddons
    outcome,        \* how checkForAddonUpdates ended
    ret,            \* the list checkForAddonUpdates returned
    catalogFetch,   \* how the catalog fetch ended
    metadataFetch,  \* how the metadata fetch ended
    dl,             \* the state of downloadAddonUpdate
    inst,           \* the state of installAddonUpdate
    ex              \* the state of the version extraction of fetchAddonInfo

cycleVars ==
    <<secure, noUpdates, devUpdates, pc, fetcher, curAddons, results, addonsData, info,
      workers, outcome, ret, catalogFetch, metadataFetch>>

vars == <<cycleVars, dl, inst, ex>>

\* ------------------------------------------------------------------------
\* checkForAddonUpdates: the filter loop
\* ------------------------------------------------------------------------

\* A channel resolution that keeps the "dev" of the manifest
ResolveChannel_KeepsManifestDev(name, manifestChannel, devUpdatesSet) ==
    LET updateChannel == IF manifestChannel = S_None THEN PyNone ELSE manifestChannel
    IN IF updateChannel # S_dev /\ name \in devUpdatesSet THEN S_dev ELSE updateChannel

\* The update channel of an add-on, from its manifest and the devUpdates set
ResolveChannel(name, manifestChannel, devUpdatesSet) ==
    LET updateChannel == IF manifestChannel = S_None THEN PyNone ELSE manifestChannel
    IN IF updateChannel # S_dev /\ name \in devUpdatesSet THEN S_dev
       ELSE IF updateChannel = S_dev /\ name \notin devUpdatesSet THEN PyNone
       ELSE updateChannel

\* A filter that ignores the opt-out set
FilteredOut_IgnoresNoUpdates(addon, noUpdatesSet) ==
    \/ addon.name \in addonsWithUpdaters
    \/ StrIn(S_vocalizer, Lower(addon.name))

\* TRUE iff the loop skips the add-on
FilteredOut(addon, noUpdatesSet) ==
    \/ addon.name \in addonsWithUpdaters
    \/ StrIn(S_vocalizer, Lower(addon.name))
    \/ addon.name \in noUpdatesSet

RECURSIVE BuildCurAddons(_, _, _)
BuildCurAddons(addons, noUpdatesSet, devUpdatesSet) ==
    IF addons = <<>> THEN <<>>
    ELSE LET addon == Head(addons)
             rest == BuildCurAddons(Tail(addons), noUpdatesSet, devUpdatesSet)
         IN IF FilteredOut(addon, noUpdatesSet) THEN rest
            ELSE << [name |-> addon.name, summary |-> addon.summary,
                     version |-> addon.version,
                     channel |-> ResolveChannel(addon.name, addon.updateChannel,
                                                devUpdatesSet)] >> \o rest

CurNames == {curAddons[i].name : i \in 1..Len(curAddons)}

ManifestInfo(name) == curAddons[CHOOSE i \in 1..Len(curAddons) : curAddons[i].name = name]

\* ------------------------------------------------------------------------
\* Dictionaries in insertion order
\* ------------------------------------------------------------------------

InfoNames(d) == {d[i].name : i \in 1..Len(d)}

\* A write that replaces the dictionary by the new entry
DictSet_Replace(d, entry) == <<entry>>

\* d[entry.name] = entry
DictSet(d, entry) ==
    IF entry.name \in InfoNames(d)
    THEN [i \in 1..Len(d) |-> IF d[i].name = entry.name THEN entry ELSE d[i]]
    ELSE Append(d, entry)

\* ------------------------------------------------------------------------
\* fetchAddonInfo
\* ------------------------------------------------------------------------

NewWorker ==
    [pc |-> "unstarted", addonKey |-> PyNone, addonUrl |-> PyNone, gate |-> "none",
     lookedUp |-> FALSE, requests |-> 0, first |-> "none", calls |-> <<>>,
     writes |-> <<>>]

\* How urlopen can fail: an IOError whose reason is the certificate
\* verification failure, another IOError, an exception that is no IOError
Failures == {"certificate", "ioerror", "exception"}

\* Retrying whatever the failure
IsCertificateFailure_Any(failure) == TRUE

\* Lines 259, 298, 317: isinstance(e.reason, ssl.SSLCertVerificationError)
\* and e.reason.reason == "CERTIFICATE_VERIFY_FAILED"
IsCertificateFailure(failure) == failure = "certificate"

\* The calls of a thread after urlopen
Urlopen(calls) == Append(calls, "urlopen")

\* The calls of a thread after addonUtils._updateWindowsRootCertificates()
\* and the urlopen that follows it
RefreshAndUrlopen(calls) == calls \o <<"_updateWindowsRootCertificates", "urlopen">>

WorkerExits ==
    {"noKey", "incompatible", "noCatalogEntry", "noResponse", "noVersion", "end", "crashed"}

\* addonsData["active"][addon] raises KeyError
MetadataMissing(data, addon) ==
    \/ "active" \notin DOMAIN data
    \/ addon \notin DOMAIN data["active"]

\* addonMetadataPresent after validation (the record is there and does not
\* make validateAddonMetadata raise)
MetadataTrusted(data, addon) ==
    /\ ~MetadataMissing(data, addon)
    /\ validateAddonMetadata(data["active"][addon])

\* addonMetadata.get("addonKey") if addonMetadataPresent else None
MetadataAddonKey(data, addon) ==
    IF MetadataTrusted(data, addon) /\ "addonKey" \in DOMAIN data["active"][addon]
    THEN data["active"][addon]["addonKey"].val
    ELSE PyNone

\* A key with no fallback to the built-in table
BaseAddonKey_NoFallback(data, addon) == MetadataAddonKey(data, addon)

\* The key before the channel suffix; PyNone when neither source has one
BaseAddonKey(data, addon) ==
    IF MetadataAddonKey(data, addon) # PyNone THEN MetadataAddonKey(data, addon)
    ELSE IF addon \in DOMAIN names2urls THEN names2urls[addon]
    ELSE PyNone

\* A key that never gets the channel
WithChannel_Never(addonKey, channel) == addonKey

\* Lines 230-232: addonKey += "-" + channel unless the channel is None
WithChannel(addonKey, channel) ==
    IF channel # PyNone THEN addonKey \o S_dash \o channel ELSE addonKey

\* Lines 209-244: from the start of the thread to the catalog lookup
WorkerResolve(addon) ==
    /\ pc \in {"start", "join"}
    /\ addon \in DOMAIN workers
    /\ workers[addon].pc = "resolve"
    /\ LET w == workers[addon]
           manifestInfo == ManifestInfo(addon)
           exit(p) == workers' = [workers EXCEPT ![addon].pc = p]
       IN IF ~MetadataMissing(addonsData, addon)
             /\ validateAddonMetadataRaises(addonsData["active"][addon])
          THEN exit("crashed")
          ELSE IF BaseAddonKey(addonsData, addon) = PyNone
          THEN exit("noKey")
          ELSE LET addonKey == WithChannel(BaseAddonKey(addonsData, addon),
                                           manifestInfo.channel)
                   present == MetadataTrusted(addonsData, addon)
                   compatible ==
                       addonCompatibleAccordingToMetadata(
                           addon, addonsData["active"][addon], devUpdates)
               IN IF present /\ ~compatible
                  THEN workers' = [workers EXCEPT ![addon] =
                           [w EXCEPT !.pc = "incompatible", !.addonKey = addonKey,
                                     !.gate = "fail"]]
                  ELSE LET gated == [w EXCEPT !.addonKey = addonKey, !.lookedUp = TRUE,
                                        !.gate = IF present THEN "pass" ELSE "none"]
                       IN IF addonKey \notin DOMAIN results
                          THEN workers' = [workers EXCEPT ![addon] =
                                   [gated EXCEPT !.pc = "noCatalogEntry"]]
                          ELSE workers' = [workers EXCEPT ![addon] =
                                   [gated EXCEPT
                                       !.addonUrl = results[addonKey],
                                       !.pc = IF ~StrIn(S_dotNvdaAddon, results[addonKey])
                                              THEN "request" ELSE "emit"]]
    /\ UNCHANGED <<secure, noUpdates, devUpdates, pc, fetcher, curAddons, results,
                   addonsData, info, outcome, ret, catalogFetch, metadataFetch, dl, inst, ex>>

\* What a request to the file getter can give: a response (its final URL and
\* status code), a certificate verification failure, another IOError, or an
\* exception that is no IOError or has no reason attribute.
GetterResponses(addon) ==
    {[url |-> u, code |-> 200] : u \in GetterUrls(addon)}
        \cup {[url |-> MirrorHost \o FileName(addon, V_20), code |-> 204]}

\* Lines 264-269: the finally block and the status check, with a response
AfterGetterResponse(w, res) ==
    [w EXCEPT !.addonUrl = res.url, !.pc = IF res.code # 200 THEN "noResponse" ELSE "emit"]

\* Lines 249-269: the first request to the file getter
WorkerRequest(addon) ==
    /\ pc \in {"start", "join"}
    /\ addon \in DOMAIN workers
    /\ workers[addon].pc = "request"
    /\ LET w == [workers[addon] EXCEPT !.requests = @ + 1, !.calls = Urlopen(@)]
       IN \/ \E res \in GetterResponses(addon) :
                 workers' = [workers EXCEPT
                                ![addon] = AfterGetterResponse([w EXCEPT !.first = "response"],
                                                               res)]
          \/ \E failure \in Failures :
                 workers' = [workers EXCEPT
                                ![addon] = [w EXCEPT
                                               !.first = failure,
                                               !.pc = IF failure = "exception" THEN "crashed"
                                                      ELSE IF IsCertificateFailure(failure)
                                                      THEN "retry"
                                                      ELSE "noResponse"]]
    /\ UNCHANGED <<secure, noUpdates, devUpdates, pc, fetcher, curAddons, results,
                   addonsData, info, outcome, ret, catalogFetch, metadataFetch, dl, inst, ex>>

\* Lines 259-261: after the certificate failure and the refresh of the root
\* certificates, the request again; its exception leaves the thread.
WorkerRetry(addon) ==
    /\ pc \in {"start", "join"}
    /\ addon \in DOMAIN workers
    /\ workers[addon].pc = "retry"
    /\ LET w == [workers[addon] EXCEPT !.requests = @ + 1, !.calls = RefreshAndUrlopen(@)]
       IN \/ \E res \in GetterResponses(addon) :
                 workers' = [workers EXCEPT ![addon] = AfterGetterResponse(w, res)]
          \/ workers' = [workers EXCEPT ![addon] = [w EXCEPT !.pc = "crashed"]]
    /\ UNCHANGED <<secure, noUpdates, devUpdates, pc, fetcher, curAddons, results,
                   addonsData, info, outcome, ret, catalogFetch, metadataFetch, dl, inst, ex>>

\* if "/" not in addonUrl: addonUrl = communityHostedFile + addonUrl
HostedUrl(addonUrl) ==
    IF ~StrIn(<<"/">>, addonUrl) THEN communityHostedFile \o addonUrl ELSE addonUrl

\* An entry whatever the version
ShouldEmit_Always(addonVersion, version) == TRUE

\* TRUE iff the version of the URL differs from the installed one (line 286)
ShouldEmit(addonVersion, version) == addonVersion # version

\* Lines 270-287: the version of the URL, and the entry of info
\* A key that every worker shares
EntryKey_Shared(addon) == N_clock

\* Line 287: the key of info[addon] is the name the thread was started with
EntryKey(addon) == addon

WorkerEmit(addon) ==
    /\ pc \in {"start", "join"}
    /\ addon \in DOMAIN workers
    /\ workers[addon].pc = "emit"
    /\ LET addonUrl == HostedUrl(workers[addon].addonUrl)
           fileName == LastSegment(addonUrl)
           addonVersion == ManifestInfo(addon).version
       IN IF VersionSearchFails(fileName)
          THEN /\ workers' = [workers EXCEPT ![addon].pc = "noVersion", ![addon].addonUrl = addonUrl]
               /\ info' = info
          ELSE LET version == StripAddonName(addon, VersionGroup(fileName))
               IN IF ShouldEmit(addonVersion, version)
                  THEN /\ workers' = [workers EXCEPT
                                         ![addon].pc = "end", ![addon].addonUrl = addonUrl,
                                         ![addon].writes = Append(@, EntryKey(addon))]
                       /\ info' = DictSet(info, [name |-> EntryKey(addon),
                                                 curVersion |-> addonVersion,
                                                 version |-> version, path |-> addonUrl])
                  ELSE /\ workers' = [workers EXCEPT
                                         ![addon].pc = "end", ![addon].addonUrl = addonUrl]
                       /\ info' = info
    /\ UNCHANGED <<secure, noUpdates, devUpdates, pc, fetcher, curAddons, results,
                   addonsData, outcome, ret, catalogFetch, metadataFetch, dl, inst, ex>>

\* ------------------------------------------------------------------------
\* checkForAddonUpdate: the catalog and the metadata threads
\* ------------------------------------------------------------------------

\* results.update(d) and addonsData.update(d)
DictUpdate(d, new) == new @@ d

\* results["error"] = True
ErrorFlag == S_error :> <<"T","r","u","e">>

\* A test that never sees the error
CatalogErrorSeen_Never(res) == FALSE

\* Line 335: if "error" in results
CatalogErrorSeen(res) == S_error \in DOMAIN res

NoFetcher == [pc |-> "none", requests |-> 0, first |-> "none", calls |-> <<>>]

NewFetcher == [pc |-> "request", requests |-> 0, first |-> "none", calls |-> <<>>]

\* The fetcher thread at position p after its first request, which ended as
\* first says
Requested(p, first) ==
    [pc |-> p, requests |-> fetcher.requests + 1, first |-> first,
     calls |-> Urlopen(fetcher.calls)]

\* The fetcher thread after the refresh of the root certificates and the
\* second request
Retried ==
    [pc |-> "exited", requests |-> fetcher.requests + 1, first |-> fetcher.first,
     calls |-> RefreshAndUrlopen(fetcher.calls)]

\* Lines 364-365: secure mode, no check at all
CheckSecure ==
    /\ pc = "begin"
    /\ secure
    /\ pc' = "done"
    /\ outcome' = "returnedNone"
    /\ UNCHANGED <<secure, noUpdates, devUpdates, fetcher, curAddons, results, addonsData,
                   info, workers, ret, catalogFetch, metadataFetch, dl, inst, ex>>

\* Lines 366-392 and 329-331: the filter loop, then the catalog thread starts
CheckBegin ==
    /\ pc = "begin"
    /\ ~secure
    /\ curAddons' = BuildCurAddons(AvailableAddons, noUpdates, devUpdates)
    /\ results' = EmptyObject
    /\ pc' = "catalog"
    /\ fetcher' = NewFetcher
    /\ UNCHANGED <<secure, noUpdates, devUpdates, addonsData, info, workers, outcome, ret,
                   catalogFetch, metadataFetch, dl, inst, ex>>

\* Lines 293-308: the first request of _currentCommunityAddons. It gives a
\* body that json.load parses, a body that it does not parse (the exception
\* leaves the thread), a certificate failure, another IOError (the error flag
\* is set), or an exception that the handler does not catch.
CatalogRequest ==
    /\ pc = "catalog"
    /\ fetcher.pc = "request"
    /\ \/ \E body \in CatalogBodies :
              /\ results' = DictUpdate(results, body)
              /\ catalogFetch' = "ok"
              /\ fetcher' = Requested("exited", "response")
       \/ /\ catalogFetch' = "failed"
          /\ fetcher' = Requested("exited", "response")
          /\ UNCHANGED results
       \/ \E failure \in Failures :
              IF failure = "exception"
              THEN /\ catalogFetch' = "failed"
                   /\ fetcher' = Requested("exited", failure)
                   /\ UNCHANGED results
              ELSE IF IsCertificateFailure(failure)
              THEN /\ fetcher' = Requested("retry", failure)
                   /\ UNCHANGED <<results, catalogFetch>>
              ELSE /\ results' = DictUpdate(results, ErrorFlag)
                   /\ catalogFetch' = "failed"
                   /\ fetcher' = Requested("exited", failure)
    /\ UNCHANGED <<secure, noUpdates, devUpdates, pc, curAddons, addonsData, info, workers,
                   outcome, ret, metadataFetch, dl, inst, ex>>

\* Lines 298-300 and 305-308: the request again, after the certificate
\* failure and the refresh of the root certificates. An exception of this
\* request is raised inside the handler and leaves the thread, as the
\* exception of json.load does; the error flag is not set.
CatalogRetry ==
    /\ pc = "catalog"
    /\ fetcher.pc = "retry"
    /\ fetcher' = Retried
    /\ \/ \E body \in CatalogBodies :
              /\ results' = DictUpdate(results, body)
              /\ catalogFetch' = "ok"
       \/ /\ catalogFetch' = "failed"
          /\ UNCHANGED results
    /\ UNCHANGED <<secure, noUpdates, devUpdates, pc, curAddons, addonsData, info, workers,
                   outcome, ret, metadataFetch, dl, inst, ex>>

\* Lines 333-340 (and 393-395): the join of the catalog thread; the error of
\* results is raised, and checkForAddonUpdates raises RuntimeError; otherwise
\* the metadata thread starts.
CatalogJoin ==
    /\ pc = "catalog"
    /\ fetcher.pc = "exited"
    /\ IF CatalogErrorSeen(results)
       THEN /\ pc' = "done"
            /\ outcome' = "raised"
            /\ fetcher' = NoFetcher
            /\ UNCHANGED addonsData
       ELSE /\ pc' = "metadata"
            /\ fetcher' = NewFetcher
            /\ addonsData' = EmptyObject
            /\ UNCHANGED outcome
    /\ UNCHANGED <<secure, noUpdates, devUpdates, curAddons, results, info, workers, ret,
                   catalogFetch, metadataFetch, dl, inst, ex>>

\* Lines 311-327: the first request of _currentCommunityAddonsMetadata. It
\* gives a body that json.load parses, a body that it does not parse or an
\* exception that the handler does not catch (the exception leaves the
\* thread), a certificate failure, or another IOError (addonsData is cleared).
MetadataRequest ==
    /\ pc = "metadata"
    /\ fetcher.pc = "request"
    /\ \/ \E body \in MetadataBodies :
              /\ addonsData' = DictUpdate(addonsData, body)
              /\ metadataFetch' = "ok"
              /\ fetcher' = Requested("exited", "response")
       \/ /\ metadataFetch' = "failed"
          /\ fetcher' = Requested("exited", "response")
          /\ UNCHANGED addonsData
       \/ \E failure \in Failures :
              IF failure = "exception"
              THEN /\ metadataFetch' = "failed"
                   /\ fetcher' = Requested("exited", failure)
                   /\ UNCHANGED addonsData
              ELSE IF IsCertificateFailure(failure)
              THEN /\ fetcher' = Requested("retry", failure)
                   /\ UNCHANGED <<addonsData, metadataFetch>>
              ELSE /\ addonsData' = EmptyObject
                   /\ metadataFetch' = "failed"
                   /\ fetcher' = Requested("exited", failure)
    /\ UNCHANGED <<secure, noUpdates, devUpdates, pc, curAddons, results, info, workers,
                   outcome, ret, catalogFetch, dl, inst, ex>>

\* Lines 317-319 and 324-327: the metadata request again
MetadataRetry ==
    /\ pc = "metadata"
    /\ fetcher.pc = "retry"
    /\ fetcher' = Retried
    /\ \/ \E body \in MetadataBodies :
              /\ addonsData' = DictUpdate(addonsData, body)
              /\ metadataFetch' = "ok"
       \/ /\ metadataFetch' = "failed"
          /\ UNCHANGED addonsData
    /\ UNCHANGED <<secure, noUpdates, devUpdates, pc, curAddons, results, info, workers,
                   outcome, ret, catalogFetch, dl, inst, ex>>

\* Lines 342-354: the join of the metadata thread, info and the worker threads
MetadataJoin ==
    /\ pc = "metadata"
    /\ fetcher.pc = "exited"
    /\ info' = <<>>
    /\ workers' = [name \in CurNames |-> NewWorker]
    /\ pc' = IF curAddons = <<>> THEN "join" ELSE "start"
    /\ fetcher' = NoFetcher
    /\ UNCHANGED <<secure, noUpdates, devUpdates, curAddons, results, addonsData, outcome,
                   ret, catalogFetch, metadataFetch, dl, inst, ex>>

\* Lines 355-356: thread.start(), in the order of curAddons
StartThread ==
    /\ pc = "start"
    /\ LET unstarted == {i \in 1..Len(curAddons) : workers[curAddons[i].name].pc = "unstarted"}
           next == SetMin(unstarted)
       IN /\ workers' = [workers EXCEPT ![curAddons[next].name].pc = "resolve"]
          /\ pc' = IF unstarted = {next} THEN "join" ELSE "start"
    /\ UNCHANGED <<secure, noUpdates, devUpdates, fetcher, curAddons, results, addonsData,
                   info, outcome, ret, catalogFetch, metadataFetch, dl, inst, ex>>

\* A join that waits for one thread only
AllJoined_AnyOne(threads) ==
    \E name \in DOMAIN threads : threads[name].pc \in WorkerExits

\* Lines 357-358: thread.join() has returned for every thread
AllJoined(threads) ==
    \A name \in DOMAIN threads : threads[name].pc \in WorkerExits

\* The AddonUpdateRecord of an entry of info (lines 401-408)
AddonUpdateRecord(entry, manifestInfo) ==
    [name |-> entry.name, summary |-> manifestInfo.summary, version |-> entry.version,
     installedVersion |-> entry.curVersion, url |-> entry.path, hash |-> PyNone,
     minimumNVDAVersion |-> <<0, 0, 0>>, lastTestedNVDAVersion |-> <<0, 0, 0>>,
     updateChannel |-> manifestInfo.channel]

\* AddonUpdateRecord.updateAvailable
updateAvailable(record) == record.version # record.installedVersion

\* Lines 357-359 and 396-409: every thread is joined, checkForAddonUpdate
\* returns info, and checkForAddonUpdates returns None or the list of records
JoinThreads ==
    /\ pc = "join"
    /\ AllJoined(workers)
    /\ pc' = "done"
    /\ IF Len(info) = 0
       THEN /\ outcome' = "returnedNone"
            /\ UNCHANGED ret
       ELSE /\ outcome' = "returnedList"
            /\ ret' = [i \in 1..Len(info) |->
                          AddonUpdateRecord(info[i], ManifestInfo(info[i].name))]
    /\ UNCHANGED <<secure, noUpdates, devUpdates, fetcher, curAddons, results, addonsData,
                   info, workers, catalogFetch, metadataFetch, dl, inst, ex>>

\* ------------------------------------------------------------------------
\* The check cycle
\* ------------------------------------------------------------------------

\* The devUpdates sets of the model: no add-on, or one of the first two
\* installed ones
DevUpdatesChoices == {{}} \cup {{name} : name \in PoolNames \cap {N_clock, N_newApp}}

InitCycle ==
    /\ pc = "begin"
    /\ fetcher = NoFetcher
    /\ curAddons = <<>>
    /\ results = EmptyObject
    /\ addonsData = EmptyObject
    /\ info = <<>>
    /\ workers = EmptyObject
    /\ outcome = "running"
    /\ ret = <<>>
    /\ catalogFetch = "none"
    /\ metadataFetch = "none"

\* ------------------------------------------------------------------------
\* downloadAddonUpdate
\* ------------------------------------------------------------------------

\* Contents (of the remote body, of the file, of what the hasher was fed) are
\* sequences of runs [b |-> byte, n |-> count], no two neighbours of the same
\* byte, every count positive.

RECURSIVE RunsLen(_)
RunsLen(data) == IF data = <<>> THEN 0 ELSE Head(data).n + RunsLen(Tail(data))

\* data + more
RunsAppend(data, more) ==
    IF data = <<>> THEN more
    ELSE IF more = <<>> THEN data
    ELSE IF data[Len(data)].b = more[1].b
    THEN SubSeq(data, 1, Len(data) - 1)
             \o <<[b |-> more[1].b, n |-> data[Len(data)].n + more[1].n]>> \o Tail(more)
    ELSE data \o more

\* data[:k]
RECURSIVE RunsTake(_, _)
RunsTake(data, k) ==
    IF k <= 0 \/ data = <<>> THEN <<>>
    ELSE IF Head(data).n >= k THEN <<[b |-> Head(data).b, n |-> k]>>
    ELSE <<Head(data)>> \o RunsTake(Tail(data), k - Head(data).n)

\* data[k:]
RECURSIVE RunsDrop(_, _)
RunsDrop(data, k) ==
    IF k <= 0 \/ data = <<>> THEN data
    ELSE IF Head(data).n > k THEN <<[b |-> Head(data).b, n |-> Head(data).n - k]>> \o Tail(data)
    ELSE RunsDrop(Tail(data), k - Head(data).n)

\* chunk = 8192
ChunkSize == 8192

\* The digests of the model: a checksum of the bytes, modulo HashModulus
HashModulus == 251

\* hashlib.sha1(data).hexdigest(), as a checksum of all the bytes of data
RECURSIVE Sha1(_)
Sha1(data) ==
    IF data = <<>> THEN 0
    ELSE ((Head(data).b + 1) * Head(data).n + Sha1(Tail(data))) % HashModulus

\* A hasher that forgets what it was fed before
HasherUpdate_Reset(hasher, block) == block

\* hasher.update(block): the hasher holds all the bytes it was fed
HasherUpdate(hasher, block) == RunsAppend(hasher, block)

\* hasher.hexdigest()
HexDigest(hasher) == Sha1(hasher)

\* The fileHash argument: None, the empty string, or a digest
NoHash == [kind |-> "None", digest |-> 0]

EmptyHash == [kind |-> "empty", digest |-> 0]

HexHash(digest) == [kind |-> "hex", digest |-> digest]

\* if fileHash
Truthy(fileHash) == fileHash.kind = "hex"

\* A write that drops the block
FileWrite_Drop(data, block) == data

\* local.write(block)
FileWrite(data, block) == RunsAppend(data, block)

\* A verification that looks at the hash first
VerifyError_HashFirst(read, size, fileHash, digest) ==
    IF Truthy(fileHash) /\ digest # fileHash.digest THEN "Content has incorrect file hash"
    ELSE IF read < size THEN "Content too short"
    ELSE ""

\* Lines 451-454: the error of the verification, "" when there is none
VerifyError(read, size, fileHash, digest) ==
    IF read < size THEN "Content too short"
    ELSE IF Truthy(fileHash) /\ digest # fileHash.digest THEN "Content has incorrect file hash"
    ELSE ""

\* The bodies of the model: len bytes, all 0, all 1, or a 1 before 0s
Body(len, pattern) ==
    IF len = 0 THEN <<>>
    ELSE IF pattern = "zeros" THEN <<[b |-> 0, n |-> len]>>
    ELSE IF pattern = "ones" \/ len = 1 THEN <<[b |-> 1, n |-> len]>>
    ELSE <<[b |-> 1, n |-> 1], [b |-> 0, n |-> len - 1]>>

Patterns == {"zeros", "ones", "mixed"}

\* The content lengths of the model: 0, 1, and the multiples of the chunk size
\* up to MaxChunks chunks, each with its two neighbours
Sizes == {0, 1} \cup {k * ChunkSize + d : k \in 1..MaxChunks, d \in {-1, 0, 1}}

\* What the URL serves: no response at all, or a status code, a
\* content-length header and a body (which can end before the declared length)
Resources ==
    {[reachable |-> FALSE, code |-> 0, size |-> 0, body |-> <<>>]}
        \cup {[reachable |-> TRUE, code |-> 206, size |-> 1, body |-> Body(1, "ones")]}
        \cup {[reachable |-> TRUE, code |-> 200, size |-> size, body |-> Body(len, pattern)] :
                 size \in Sizes, len \in Sizes, pattern \in Patterns}

\* The hashes a caller can pass for a resource: none, the empty string, and
\* the digest of each body of the declared size
FileHashes(resource) ==
    {NoHash, EmptyHash} \cup {HexHash(Sha1(Body(resource.size, pattern))) : pattern \in Patterns}

NoFile == [exists |-> FALSE, data |-> <<>>]

OldFile == [exists |-> TRUE, data |-> <<[b |-> 7, n |-> 3]>>]

TempPath == "nvda_addonUpdate-.nvda-addon"

DlIdle == [pc |-> "idle"]

InstIdle == [pc |-> "idle"]

ExIdle == [pc |-> "idle"]

\* The state of a call of downloadAddonUpdate(url, destPath, fileHash)
DlCall(resource, destPath, fileHash, file) ==
    [pc |-> "call", resource |-> resource, destPath |-> destPath, fileHash |-> fileHash,
     file |-> file, remote |-> <<>>, size |-> 0, read |-> 0, chunk |-> 0, hasher |-> <<>>,
     notified |-> <<>>, error |-> ""]

\* A notifier that reaches no subscriber
Notify_Lost(notified, read, size) == notified

\* AddonDownloadNotifier.notify(read=read, size=size): the notifications so
\* far, and this one
Notify(notified, read, size) == Append(notified, [read |-> read, size |-> size])

\* Lines 416-438: the destination path, the request, and the file opened for
\* writing (which empties it); the first notification
DownloadOpen ==
    /\ dl.pc = "call"
    /\ LET destPath == IF dl.destPath = "" THEN TempPath ELSE dl.destPath
       IN IF ~dl.resource.reachable
          THEN dl' = [dl EXCEPT !.pc = "raised", !.destPath = destPath,
                                !.error = "Could not access download URL"]
          ELSE IF dl.resource.code # 200
          THEN dl' = [dl EXCEPT !.pc = "raised", !.destPath = destPath,
                                !.error = "Download failed with code"]
          ELSE dl' = [dl EXCEPT !.pc = "loop", !.destPath = destPath,
                                \* the response reads no further than content-length
                                !.remote = RunsTake(dl.resource.body, dl.resource.size),
                                !.size = dl.resource.size,
                                !.file = [exists |-> TRUE, data |-> <<>>],
                                !.hasher = <<>>, !.read = 0, !.chunk = ChunkSize,
                                !.notified = Notify(<<>>, 0, dl.resource.size)]
    /\ UNCHANGED <<cycleVars, inst, ex>>

\* A chunk that is never clipped to what remains
NextChunk_Unclipped(chunk, size, read) == chunk

\* Lines 440-441: if size - read < chunk: chunk = size - read
NextChunk(chunk, size, read) == IF size - read < chunk THEN size - read ELSE chunk

\* Lines 440-449: one iteration of the loop that reads a block
DownloadRead ==
    /\ dl.pc = "loop"
    /\ LET chunk == NextChunk(dl.chunk, dl.size, dl.read)
           block == RunsTake(dl.remote, chunk)
       IN IF block = <<>>
          THEN dl' = [dl EXCEPT !.pc = "verify", !.chunk = chunk]
          ELSE dl' = [dl EXCEPT
                         !.chunk = chunk,
                         !.remote = RunsDrop(dl.remote, chunk),
                         !.read = dl.read + RunsLen(block),
                         !.file = [exists |-> TRUE, data |-> FileWrite(dl.file.data, block)],
                         !.hasher = IF Truthy(dl.fileHash)
                                    THEN HasherUpdate(dl.hasher, block) ELSE dl.hasher,
                         !.notified = Notify(dl.notified, dl.read + RunsLen(block),
                                             dl.size)]
    /\ UNCHANGED <<cycleVars, inst, ex>>

\* Lines 450-456: the verification after the loop, and the last notification
DownloadVerify ==
    /\ dl.pc = "verify"
    /\ LET error == VerifyError(dl.read, dl.size, dl.fileHash, HexDigest(dl.hasher))
       IN IF error # ""
          THEN dl' = [dl EXCEPT !.pc = "raised", !.error = error]
          ELSE dl' = [dl EXCEPT !.pc = "returned",
                                !.notified = Notify(dl.notified, dl.read, dl.size)]
    /\ UNCHANGED <<cycleVars, inst, ex>>

InitDownload ==
    /\ secure = FALSE
    /\ noUpdates = {N_wordNav}
    /\ devUpdates = {}
    /\ InitCycle
    /\ \E resource \in Resources :
       \E fileHash \in FileHashes(resource) :
       \E destPath \in {"", "update.nvda-addon"} :
       \E file \in {NoFile, OldFile} :
           dl = DlCall(resource, destPath, fileHash, file)
    /\ inst = InstIdle
    /\ ex = ExIdle

NextDownload ==
    \/ DownloadOpen
    \/ DownloadRead
    \/ DownloadVerify

SpecDownload == InitDownload /\ [][NextDownload]_vars

\* The call keeps running: each step of downloadAddonUpdate that can be taken
\* is taken
SpecDownloadFair == SpecDownload /\ WF_vars(NextDownload)

\* ------------------------------------------------------------------------
\* installAddonUpdate
\* ------------------------------------------------------------------------

\* class AddonInstallStatus
AddonInstallSuccess == 0

AddonInstallGenericError == 1

AddonReadBundleFailed == 2

AddonMinVersionNotMet == 3

AddonNotTested == 4

\* The file at destPath: whether addonHandler.AddonBundle can open it, the
\* name of its manifest, and what addonVersionCheck answers for it
Bundles ==
    [readable : BOOLEAN, name : {N_clock, N_eMule, N_newApp},
     requiredSupport : BOOLEAN, tested : BOOLEAN]

\* addonHandler.getAvailableAddons(): the installed add-ons in the order the
\* host yields them, each pending removal or not
InstalledAddons ==
    {<<>>}
        \cup {<<[name |-> N_clock, isPendingRemove |-> p]>> : p \in BOOLEAN}
        \cup {<<[name |-> N_eMule, isPendingRemove |-> p],
                [name |-> N_clock, isPendingRemove |-> q]>> : p, q \in BOOLEAN}

\* The state of a call of installAddonUpdate(destPath, addonName); calls is
\* the sequence of calls made to the host that change it
InstCall(file, installed, installerRaises) ==
    [pc |-> "call", file |-> file, installed |-> installed, installedBefore |-> installed,
     installerRaises |-> installerRaises, calls |-> <<>>, status |-> -1]

\* addonVersionCheck.hasAddonGotRequiredSupport(bundle)
hasAddonGotRequiredSupport(bundle) == bundle.requiredSupport

\* addonVersionCheck.isAddonTested(bundle)
isAddonTested(bundle) == bundle.tested

\* Lines 469-473: opening the bundle
InstallOpen ==
    /\ inst.pc = "call"
    /\ IF ~inst.file.readable
       THEN inst' = [inst EXCEPT !.pc = "returned", !.status = AddonReadBundleFailed]
       ELSE inst' = [inst EXCEPT !.pc = "versionCheck"]
    /\ UNCHANGED <<cycleVars, dl, ex>>

\* The two checks in the other order
VersionCheckStatus_TestedFirst(bundle) ==
    IF ~isAddonTested(bundle) THEN AddonNotTested
    ELSE IF ~hasAddonGotRequiredSupport(bundle) THEN AddonMinVersionNotMet
    ELSE AddonInstallSuccess

\* Lines 477-480: first the minimum version, then (elif) the tested version;
\* AddonInstallSuccess stands for "no status returned here"
VersionCheckStatus(bundle) ==
    IF ~hasAddonGotRequiredSupport(bundle) THEN AddonMinVersionNotMet
    ELSE IF ~isAddonTested(bundle) THEN AddonNotTested
    ELSE AddonInstallSuccess

InstallVersionCheck ==
    /\ inst.pc = "versionCheck"
    /\ LET status == VersionCheckStatus(inst.file)
       IN IF status # AddonInstallSuccess
          THEN inst' = [inst EXCEPT !.pc = "returned", !.status = status]
          ELSE inst' = [inst EXCEPT !.pc = "remove"]
    /\ UNCHANGED <<cycleVars, dl, ex>>

\* The first installed add-on, whatever its name
FirstNamed_Any(installed, bundleName) == IF installed = <<>> THEN 0 ELSE 1

\* The position of the first installed add-on named bundleName, 0 if none
FirstNamed(installed, bundleName) ==
    LET found == {i \in 1..Len(installed) : installed[i].name = bundleName}
    IN IF found = {} THEN 0 ELSE SetMin(found)

\* Lines 481-488: the installed add-on with the name of the bundle is asked
\* to remove itself unless it is pending removal
InstallRemove ==
    /\ inst.pc = "remove"
    /\ LET i == FirstNamed(inst.installed, inst.file.name)
       IN IF i # 0 /\ ~inst.installed[i].isPendingRemove
          THEN inst' = [inst EXCEPT
                           !.pc = "install",
                           !.installed[i].isPendingRemove = TRUE,
                           !.calls = Append(inst.calls,
                                            [op |-> "requestRemove",
                                             name |-> inst.installed[i].name])]
          ELSE inst' = [inst EXCEPT !.pc = "install"]
    /\ UNCHANGED <<cycleVars, dl, ex>>

\* A status that does not look at the installer
InstallerStatus_IgnoresError(raised) == AddonInstallSuccess

\* Lines 489-494: the status after the installer ran
InstallerStatus(raised) ==
    IF raised THEN AddonInstallGenericError ELSE AddonInstallSuccess

\* Lines 489-494: gui.ExecAndPump(addonHandler.installAddonBundle, bundle)
InstallInvoke ==
    /\ inst.pc = "install"
    /\ inst' = [inst EXCEPT
                   !.pc = "returned",
                   !.calls = Append(inst.calls,
                                    [op |-> "installAddonBundle", name |-> inst.file.name]),
                   !.status = InstallerStatus(inst.installerRaises)]
    /\ UNCHANGED <<cycleVars, dl, ex>>

InitInstall ==
    /\ secure = FALSE
    /\ noUpdates = {N_wordNav}
    /\ devUpdates = {}
    /\ InitCycle
    /\ dl = DlIdle
    /\ ex = ExIdle
    /\ \E file \in Bundles :
       \E installed \in InstalledAddons :
       \E installerRaises \in BOOLEAN :
           inst = InstCall(file, installed, installerRaises)

NextInstall ==
    \/ InstallOpen
    \/ InstallVersionCheck
    \/ InstallRemove
    \/ InstallInvoke

SpecInstall == InitInstall /\ [][NextInstall]_vars

\* ------------------------------------------------------------------------
\* fetchAddonInfo, lines 270-285: from the resolved URL to the version
\* ------------------------------------------------------------------------

N_myext == <<"m","y","e","x","t">>

N_a_dash_b == <<"a","-","b">>

N_a_dot_b == <<"a",".","b">>

ExtractNames == {N_myext, N_a_dash_b, N_a_dot_b}

ExtractVersions == {<<"1",".","2",".","3">>, <<"1",".","0","-","d","e","v">>, <<"2">>}

\* The file names a host gives to the package of an add-on: name-version,
\* the same with the name once or twice more in front, or the name alone
FileNameForms == {"plain", "doubled", "tripled", "noVersion"}

FormFileName(name, version, form) ==
    CASE form = "plain" -> FileName(name, version)
      [] form = "doubled" -> name \o S_dash \o FileName(name, version)
      [] form = "tripled" -> name \o S_dash \o name \o S_dash \o FileName(name, version)
      [] OTHER -> name \o S_dotNvdaAddon

\* addonUrl at line 270: a bare file name of the catalog, or a URL
ResolvedUrls(fileName) == {fileName, MirrorHost \o fileName}

ExCall(addon, trueVersion, form, addonUrl) ==
    [pc |-> "host", addon |-> addon, trueVersion |-> trueVersion, form |-> form,
     addonUrl |-> addonUrl, version |-> PyNone]

\* Lines 271-272
ExtractHost ==
    /\ ex.pc = "host"
    /\ ex' = [ex EXCEPT !.pc = "search", !.addonUrl = HostedUrl(ex.addonUrl)]
    /\ UNCHANGED <<cycleVars, dl, inst>>

\* Lines 278-282
ExtractSearch ==
    /\ ex.pc = "search"
    /\ LET fileName == LastSegment(ex.addonUrl)
       IN IF VersionSearchFails(fileName)
          THEN ex' = [ex EXCEPT !.pc = "noVersion"]
          ELSE ex' = [ex EXCEPT !.pc = "strip", !.version = VersionGroup(fileName)]
    /\ UNCHANGED <<cycleVars, dl, inst>>

\* Lines 284-285
ExtractStrip ==
    /\ ex.pc = "strip"
    /\ ex' = [ex EXCEPT !.pc = "compare", !.version = StripAddonName(ex.addon, ex.version)]
    /\ UNCHANGED <<cycleVars, dl, inst>>

InitExtract ==
    /\ secure = FALSE
    /\ noUpdates = {N_wordNav}
    /\ devUpdates = {}
    /\ InitCycle
    /\ dl = DlIdle
    /\ inst = InstIdle
    /\ \E addon \in ExtractNames :
       \E trueVersion \in ExtractVersions :
       \E form \in FileNameForms :
       \E addonUrl \in ResolvedUrls(FormFileName(addon, trueVersion, form)) :
           ex = ExCall(addon, trueVersion, form, addonUrl)

NextExtract ==
    \/ ExtractHost
    \/ ExtractSearch
    \/ ExtractStrip

SpecExtract == InitExtract /\ [][NextExtract]_vars

\* ------------------------------------------------------------------------
\* The specification of the check cycle
\* ------------------------------------------------------------------------

Init ==
    /\ secure \in BOOLEAN
    /\ noUpdates = {N_wordNav}
    /\ devUpdates \in DevUpdatesChoices
    /\ InitCycle
    /\ dl = DlIdle
    /\ inst = InstIdle
    /\ ex = ExIdle

Next ==
    \/ CheckSecure
    \/ CheckBegin
    \/ CatalogRequest
    \/ CatalogRetry
    \/ CatalogJoin
    \/ MetadataRequest
    \/ MetadataRetry
    \/ MetadataJoin
    \/ StartThread
    \/ \E addon \in PoolNames : WorkerResolve(addon)
    \/ \E addon \in PoolNames : WorkerRequest(addon)
    \/ \E addon \in PoolNames : WorkerRetry(addon)
    \/ \E addon \in PoolNames : WorkerEmit(addon)
    \/ JoinThreads

Spec == Init /\ [][Next]_vars

\* ------------------------------------------------------------------------
\* Properties of the check cycle
\* ------------------------------------------------------------------------

\* The metadata record of an add-on is missing or fails validation
Untrusted(addon) ==
    IF MetadataMissing(addonsData, addon) THEN TRUE
    ELSE IF validateAddonMetadataRaises(addonsData["active"][addon]) THEN TRUE
    ELSE ~validateAddonMetadata(addonsData["active"][addon])

\* The key that the built-in table gives to an add-on of curAddons
BuiltinKey(addon) == WithChannel(names2urls[addon], ManifestInfo(addon).channel)

\* The worker of the add-on has passed lines 209-241
Resolved(addon) == workers[addon].pc \notin {"unstarted", "resolve"}

\* The version in the URL of a worker that reached the end of fetchAddonInfo
ExtractedVersion(addon) ==
    StripAddonName(addon, VersionGroup(LastSegment(workers[addon].addonUrl)))

\* The worker reached line 286 with a version other than the installed one
ReachedEmit(addon) ==
    /\ workers[addon].pc = "end"
    /\ ExtractedVersion(addon) # ManifestInfo(addon).version

\* The entry of info that the add-on's own worker state determines
OwnEntry(addon) ==
    [name |-> addon, curVersion |-> ManifestInfo(addon).version,
     version |-> ExtractedVersion(addon), path |-> workers[addon].addonUrl]

InfoEntries(d) == {d[i] : i \in 1..Len(d)}

\* The resolution of the add-on failed
ResolutionFailed(addon) ==
    workers[addon].pc \in {"noCatalogEntry", "noResponse", "noVersion", "crashed"}

\* C1 (as claimed): a cycle whose catalog fetch failed ends by raising, never
\* by returning None or a list.
C1_FailedCatalogRaises ==
    (pc = "done" /\ catalogFetch = "failed") => outcome = "raised"

\* C2: after a failed metadata fetch the cycle does not raise, the metadata
\* mapping is empty, and every add-on is resolved with its built-in key and no
\* compatibility gate; info holds exactly the entries of the workers that
\* reached the emit step.
C2_MetadataFailureDegrades ==
    metadataFetch = "failed" =>
        /\ outcome # "raised"
        /\ addonsData = EmptyObject
        /\ \A addon \in DOMAIN workers :
              /\ workers[addon].gate = "none"
              /\ workers[addon].pc # "incompatible"
              /\ IF addon \in DOMAIN names2urls
                 THEN /\ workers[addon].pc # "noKey"
                      /\ Resolved(addon) => workers[addon].addonKey = BuiltinKey(addon)
                 ELSE workers[addon].pc \in {"unstarted", "resolve", "noKey"}
              /\ pc = "done" => (addon \in InfoNames(info) <=> ReachedEmit(addon))

C2_Witness ==
    /\ metadataFetch = "failed"
    /\ pc = "done"
    /\ outcome = "returnedList"

\* C3 (as claimed): an add-on whose metadata record is missing or fails
\* validation is resolved as with no metadata: built-in key, no gate, and its
\* worker is not lost.
C3_UntrustedRecordIsAbsent ==
    \A addon \in DOMAIN workers :
        (Resolved(addon) /\ Untrusted(addon)) =>
            /\ workers[addon].gate = "none"
            /\ IF addon \in DOMAIN names2urls
               THEN /\ workers[addon].pc # "noKey"
                    /\ workers[addon].pc = "crashed" => workers[addon].requests > 0
                    /\ workers[addon].addonKey = BuiltinKey(addon)
               ELSE workers[addon].pc = "noKey"

\* C4: failures of per-extension resolution never make the cycle raise; a
\* failing add-on has no entry and no record, and every other add-on has
\* exactly the entry and the record that its own resolution determines.
C4_FailuresAreIsolated ==
    /\ (DOMAIN workers # {}) => outcome # "raised"
    /\ \A addon \in DOMAIN workers :
          /\ ResolutionFailed(addon) => addon \notin InfoNames(info)
          /\ pc = "done" =>
                IF ReachedEmit(addon)
                THEN /\ OwnEntry(addon) \in InfoEntries(info)
                     /\ outcome = "returnedList"
                     /\ AddonUpdateRecord(OwnEntry(addon), ManifestInfo(addon))
                            \in InfoEntries(ret)
                     /\ Cardinality({i \in 1..Len(ret) : ret[i].name = addon}) = 1
                ELSE \A i \in 1..Len(ret) : ret[i].name # addon

C4_Witness ==
    /\ pc = "done"
    /\ outcome = "returnedList"
    /\ \E failed \in DOMAIN workers : workers[failed].pc \in {"noResponse", "crashed"}
    /\ \E other \in DOMAIN workers : ReachedEmit(other)

\* C5: info holds an entry only for a version that differs from the installed
\* one; every returned record has updateAvailable, and an add-on whose
\* resolved version equals the installed one has no entry and no record.
C5_OnlyDifferingVersions ==
    /\ \A i \in 1..Len(info) : info[i].version # info[i].curVersion
    /\ \A i \in 1..Len(ret) : updateAvailable(ret[i])
    /\ \A addon \in DOMAIN workers :
          (workers[addon].pc = "end"
              /\ ExtractedVersion(addon) = ManifestInfo(addon).version) =>
              /\ addon \notin InfoNames(info)
              /\ \A i \in 1..Len(ret) : ret[i].name # addon

C5_Witness ==
    /\ pc = "done"
    /\ outcome = "returnedList"
    /\ \E addon \in DOMAIN workers :
          /\ workers[addon].pc = "end"
          /\ ExtractedVersion(addon) = ManifestInfo(addon).version

\* minimumNVDAVersion <= CURRENT and lastTestedNVDAVersion >= BACK_COMPAT_TO,
\* as 3-tuples in lexicographic order
Lex3Leq(a, b) ==
    \/ a[1] < b[1]
    \/ a[1] = b[1] /\ a[2] < b[2]
    \/ a[1] = b[1] /\ a[2] = b[2] /\ a[3] <= b[3]

BoundsHold(addonMetadata) ==
    /\ Lex3Leq(addonMetadata["minimumNVDAVersion"].val, CURRENT)
    /\ Lex3Leq(BACK_COMPAT_TO, addonMetadata["lastTestedNVDAVersion"].val)

\* C6: the resolved channel of an add-on is "dev" exactly when its name is in
\* devUpdates; with a valid record the gate is passed whatever the bounds when
\* the channel is "dev", and is decided by the bounds when it is not.
C6_DevChannelBypassesGate ==
    \A i \in 1..Len(curAddons) :
        LET addon == curAddons[i].name
            isDev == curAddons[i].channel = S_dev
        IN /\ isDev <=> addon \in devUpdates
           /\ (addon \in DOMAIN workers /\ ~Untrusted(addon)) =>
                 LET compatible ==
                         addonCompatibleAccordingToMetadata(
                             addon, addonsData["active"][addon], devUpdates)
                 IN /\ isDev => compatible /\ workers[addon].gate # "fail"
                    /\ ~isDev => (compatible <=> BoundsHold(addonsData["active"][addon]))

C6_Witness ==
    \E i \in 1..Len(curAddons) :
        LET addon == curAddons[i].name
        IN /\ curAddons[i].channel = S_dev
           /\ addon \in DOMAIN workers
           /\ ~Untrusted(addon)
           /\ ~BoundsHold(addonsData["active"][addon])
           /\ workers[addon].gate = "pass"
           /\ addon \in InfoNames(info)

\* C7: an add-on that is not on the dev channel and has a validated record
\* gets an entry only if both bounds hold; when a bound fails it is skipped
\* before the catalog lookup and before any request to the file getter.
C7_GateBeforeLookup ==
    \A addon \in DOMAIN workers :
        (ManifestInfo(addon).channel # S_dev /\ ~Untrusted(addon)) =>
            /\ addon \in InfoNames(info) => BoundsHold(addonsData["active"][addon])
            /\ (Resolved(addon) /\ ~BoundsHold(addonsData["active"][addon])) =>
                  /\ workers[addon].pc = "incompatible"
                  /\ ~workers[addon].lookedUp
                  /\ workers[addon].requests = 0
                  /\ workers[addon].addonUrl = PyNone

C7_Witness ==
    /\ pc = "done"
    /\ \E addon \in DOMAIN workers :
          /\ ManifestInfo(addon).channel # S_dev
          /\ ~Untrusted(addon)
          /\ workers[addon].pc = "incompatible"
          /\ addonsData["active"][addon]["minimumNVDAVersion"].val[1] = CURRENT[1]
    /\ \E other \in DOMAIN workers : other \in InfoNames(info)

\* ------------------------------------------------------------------------
\* Properties of the download
\* ------------------------------------------------------------------------

DlFinished == dl.pc \in {"returned", "raised"}

\* The response had status 200 and the body ended before the declared length
StreamEndedShort ==
    /\ dl.resource.reachable
    /\ dl.resource.code = 200
    /\ RunsLen(dl.resource.body) < dl.resource.size

\* The bytes of the body that the call received
Received == RunsTake(dl.resource.body, dl.read)

\* C8: when the stream ends before the declared content-length, the call
\* fails with "Content too short" and does not return normally, with or
\* without a hash, and also when the hash does not match.
C8_ShortContentFails ==
    (DlFinished /\ StreamEndedShort) =>
        /\ dl.pc = "raised"
        /\ dl.error = "Content too short"

C8_Witness ==
    /\ DlFinished
    /\ StreamEndedShort
    /\ dl.read > 0
    /\ Truthy(dl.fileHash)
    /\ Sha1(Received) # dl.fileHash.digest

\* C9: the call returns normally exactly when the status is 200, the bytes
\* read are as many as declared, and no hash was supplied or the hash of the
\* received bytes equals it; with the right count and a wrong hash it fails
\* with the hash mismatch error.
C9_ReturnsIffVerified ==
    DlFinished =>
        LET countOk == dl.resource.reachable /\ dl.resource.code = 200 /\ dl.read = dl.size
            hashOk == ~Truthy(dl.fileHash) \/ Sha1(Received) = dl.fileHash.digest
        IN /\ dl.pc = "returned" <=> (countOk /\ hashOk)
           /\ (countOk /\ ~hashOk) => dl.error = "Content has incorrect file hash"

C9_Witness ==
    /\ dl.pc = "returned"
    /\ dl.read > ChunkSize
    /\ Truthy(dl.fileHash)

\* C10 (as claimed): when the call has failed with the short-content or the
\* hash-mismatch error, none of the downloaded bytes is in the destination file.
C10_NothingOnDiskBeforeVerification ==
    (dl.pc = "raised"
        /\ dl.error \in {"Content too short", "Content has incorrect file hash"}) =>
        dl.file.data = <<>>

\* C10 (amended): the verification comes before the normal return, not before
\* the write. After a normal return the file holds the declared number of
\* bytes, with the supplied hash if there is one; after a short-content or
\* hash-mismatch failure the file holds exactly the bytes received so far.
C10_VerifiedBeforeReturn ==
    /\ dl.pc = "returned" =>
          /\ dl.file.exists
          /\ RunsLen(dl.file.data) = dl.size
          /\ dl.file.data = Received
          /\ Truthy(dl.fileHash) => Sha1(dl.file.data) = dl.fileHash.digest
    /\ (dl.pc = "raised"
           /\ dl.error \in {"Content too short", "Content has incorrect file hash"}) =>
          /\ dl.file.exists
          /\ dl.file.data = Received

C10_Witness ==
    /\ dl.pc = "raised"
    /\ dl.error = "Content has incorrect file hash"
    /\ RunsLen(dl.file.data) > ChunkSize

\* ------------------------------------------------------------------------
\* Properties of installAddonUpdate
\* ------------------------------------------------------------------------

InstReturned == inst.pc = "returned"

InstallerInvoked ==
    \E i \in 1..Len(inst.calls) : inst.calls[i].op = "installAddonBundle"

\* C11: installAddonUpdate returns the status of the first check that fails,
\* in the order bundle-readable, minimum-version, tested: an unreadable bundle
\* yields AddonReadBundleFailed, a readable bundle below the minimum version
\* yields AddonMinVersionNotMet whether it is tested or not, and
\* AddonNotTested is returned only for a readable bundle that meets the
\* minimum version.
C11_FirstFailingCheckWins ==
    /\ inst.pc = "versionCheck" => inst.file.readable
    /\ inst.pc \in {"remove", "install"} =>
           inst.file.readable /\ inst.file.requiredSupport /\ inst.file.tested
    /\ InstReturned =>
           /\ ~inst.file.readable => inst.status = AddonReadBundleFailed
           /\ inst.file.readable /\ ~inst.file.requiredSupport =>
                  inst.status = AddonMinVersionNotMet
           /\ inst.file.readable /\ inst.file.requiredSupport /\ ~inst.file.tested =>
                  inst.status = AddonNotTested
           /\ inst.file.readable /\ inst.file.requiredSupport /\ inst.file.tested =>
                  inst.status \in {AddonInstallSuccess, AddonInstallGenericError}

\* A readable bundle that fails both version checks was refused
C11_Witness ==
    /\ InstReturned
    /\ inst.file.readable /\ ~inst.file.requiredSupport /\ ~inst.file.tested
    /\ inst.status = AddonMinVersionNotMet

\* C12: when the installer raises, installAddonUpdate returns
\* AddonInstallGenericError; AddonInstallSuccess is returned only after the
\* installer was invoked and returned normally.
C12_InstallerErrorIsStatus ==
    InstReturned =>
        /\ InstallerInvoked /\ inst.installerRaises =>
               inst.status = AddonInstallGenericError
        /\ inst.status = AddonInstallSuccess =>
               InstallerInvoked /\ ~inst.installerRaises
        /\ inst.status = AddonInstallGenericError =>
               InstallerInvoked /\ inst.installerRaises

\* The installer raised and the call returned the generic error
C12_Witness ==
    /\ InstReturned
    /\ InstallerInvoked
    /\ inst.installerRaises
    /\ inst.status = AddonInstallGenericError

\* ------------------------------------------------------------------------
\* Properties of the network calls and of the phases of the check cycle
\* ------------------------------------------------------------------------

\* The calls a thread can have made: none, one request, or a request, the
\* refresh of the root certificates and a second request
AllowedCalls ==
    {<<>>, <<"urlopen">>, <<"urlopen", "_updateWindowsRootCertificates", "urlopen">>}

\* The retry discipline, for a thread t that makes one network call
RetryDiscipline(t) ==
    /\ t.requests <= 2
    /\ t.calls \in AllowedCalls
    /\ t.requests = Cardinality({i \in 1..Len(t.calls) : t.calls[i] = "urlopen"})
    /\ t.requests = 2 => t.first = "certificate"
    /\ t.first = "certificate" => t.pc = "retry" \/ t.requests = 2
    /\ t.first \in {"response", "ioerror", "exception"} => t.requests = 1
    /\ t.pc = "retry" => t.first = "certificate" /\ t.requests = 1

\* C13: each network call of a check cycle (catalog, metadata, file getter)
\* issues at most two requests; the second one is issued only when the first
\* failed with the certificate verification failure, after the refresh of the
\* root certificates; every other end of the first request, and every end of
\* the second, ends the call.
C13_AtMostOneRetry ==
    /\ RetryDiscipline(fetcher)
    /\ \A addon \in DOMAIN workers : RetryDiscipline(workers[addon])

\* A file-getter call whose second request failed, after a catalog fetch that
\* needed no retry
C13_Witness ==
    \E addon \in DOMAIN workers :
        /\ workers[addon].requests = 2
        /\ workers[addon].pc = "crashed"
        /\ workers[addon].calls[2] = "_updateWindowsRootCertificates"

\* The installed add-ons whose name holds "vocalizer" in any case
VocalizerFamily ==
    {AvailableAddons[i].name : i \in {k \in 1..Len(AvailableAddons) :
        StrIn(S_vocalizer, Lower(AvailableAddons[k].name))}}

\* The installed add-ons that the filter loop must skip
MustSkip(addon) ==
    \/ addon.name \in noUpdates
    \/ addon.name \in addonsWithUpdaters
    \/ addon.name \in VocalizerFamily

\* C14: for an installed add-on that is in noUpdates, in addonsWithUpdaters,
\* or whose name contains "vocalizer" in any case, no worker is started, info
\* gets no entry and no record is returned, whatever the catalog lists.
C14_FilteredNeverResolved ==
    \A i \in 1..Len(AvailableAddons) :
        MustSkip(AvailableAddons[i]) =>
            /\ AvailableAddons[i].name \notin CurNames
            /\ AvailableAddons[i].name \notin DOMAIN workers
            /\ AvailableAddons[i].name \notin InfoNames(info)
            /\ \A k \in 1..Len(ret) : ret[k].name # AvailableAddons[i].name

\* A cycle that returned records although the catalog lists a newer version
\* of the opted-out add-on, with an add-on of each filtered kind installed
C14_Witness ==
    /\ outcome = "returnedList"
    /\ Len(ret) > 0
    /\ names2urls[N_wordNav] \in DOMAIN results
    /\ VersionGroup(LastSegment(results[names2urls[N_wordNav]])) # V_10
    /\ \E i \in 1..Len(AvailableAddons) : AvailableAddons[i].name \in noUpdates
    /\ \E i \in 1..Len(AvailableAddons) : AvailableAddons[i].name \in addonsWithUpdaters
    /\ \E i \in 1..Len(AvailableAddons) :
           /\ MustSkip(AvailableAddons[i])
           /\ AvailableAddons[i].name \notin noUpdates \cup addonsWithUpdaters

\* The workers that wrote their entry (line 287)
Emitters == {addon \in DOMAIN workers : ReachedEmit(addon)}

\* C15: under every interleaving of the workers, the cycle returns only after
\* every worker it started has terminated; at every moment info holds exactly
\* one entry per worker that reached the emit step, the entry that this
\* worker's own resolution determines, so the returned entries are a function
\* of the workers' outcomes and not of their order.
C15_CompleteAfterJoin ==
    LET emitters == Emitters
        entries == {OwnEntry(addon) : addon \in emitters}
    IN /\ pc = "done" => \A addon \in DOMAIN workers : workers[addon].pc \in WorkerExits
       /\ InfoEntries(info) = entries
       /\ Len(info) = Cardinality(emitters)
       /\ outcome = "returnedList" =>
              /\ Len(ret) = Cardinality(emitters)
              /\ InfoEntries(ret) =
                     {AddonUpdateRecord(entry, ManifestInfo(entry.name)) : entry \in entries}
       /\ outcome = "returnedNone" /\ ~secure => emitters = {}

\* Two workers emitted, in the order opposite to the one they were started in
C15_Witness ==
    /\ pc = "done"
    /\ Len(info) = 2
    /\ Len(curAddons) = 2
    /\ info[1].name = curAddons[2].name
    /\ info[2].name = curAddons[1].name

\* ------------------------------------------------------------------------
\* Properties of the version extraction
\* ------------------------------------------------------------------------

ExFinished == ex.pc \in {"compare", "noVersion"}

\* C16 (as claimed): for a URL whose last segment is name-version.nvda-addon
\* the extraction ends with exactly that version, for every name and version,
\* those with "-" or "." included.
C16_PlainFileNameRoundTrip ==
    (ExFinished /\ ex.form = "plain") =>
        /\ ex.pc = "compare"
        /\ ex.version = ex.trueVersion

\* C17 (as claimed): when the name occurs in the parsed version string, the
\* extraction recovers the true version; the result is never empty and never
\* truncated, however often and wherever the name occurs.
C17_EmbeddedNameRecovered ==
    (ExFinished /\ ex.form \in {"doubled", "tripled"}) =>
        /\ ex.pc = "compare"
        /\ ex.version # <<>>
        /\ ex.version = ex.trueVersion

\* ------------------------------------------------------------------------
\* Properties of the phases
\* ------------------------------------------------------------------------

\* Some worker thread has been started
SomeWorkerStarted == \E addon \in DOMAIN workers : workers[addon].pc # "unstarted"

\* The fetcher thread is alive
FetcherRunning == fetcher.pc \in {"request", "retry"}

\* C18: the catalog fetch has terminated before the metadata fetch starts,
\* and the metadata fetch has terminated before any worker starts; after a
\* catalog fetch that reported an error no metadata request is issued and no
\* worker is started.
C18_PhasesInOrder ==
    /\ pc = "catalog" => metadataFetch = "none" /\ DOMAIN workers = {}
    /\ pc = "metadata" =>
           /\ catalogFetch # "none"
           /\ DOMAIN workers = {}
           /\ fetcher.requests > 0 => S_error \notin DOMAIN results
    /\ metadataFetch # "none" => catalogFetch # "none"
    /\ SomeWorkerStarted =>
           /\ catalogFetch # "none"
           /\ metadataFetch # "none"
           /\ ~FetcherRunning
           /\ fetcher.requests = 0
    /\ S_error \in DOMAIN results =>
           /\ pc \in {"catalog", "done"}
           /\ metadataFetch = "none"
           /\ ~SomeWorkerStarted
           /\ pc = "done" => outcome = "raised" /\ fetcher = NoFetcher

\* A worker runs after a catalog fetch and a metadata fetch that both ended
\* with a parsed body
C18_Witness ==
    /\ SomeWorkerStarted
    /\ catalogFetch = "ok"
    /\ metadataFetch = "ok"
    /\ pc \in {"start", "join"}

\* The keys of info that the workers have written, with the writer of each
InfoWrites ==
    {w \in (DOMAIN workers) \X (1..2) : w[2] <= Len(workers[w[1]].writes)}

\* C19: during the fan-out each worker writes at most one entry of info, under
\* the name of its own add-on; no key is written twice and no two workers
\* write the same key.
C19_DisjointSingleWrites ==
    /\ \A addon \in DOMAIN workers :
           /\ Len(workers[addon].writes) <= 1
           /\ \A i \in 1..Len(workers[addon].writes) : workers[addon].writes[i] = addon
    /\ \A w1, w2 \in InfoWrites :
           workers[w1[1]].writes[w1[2]] = workers[w2[1]].writes[w2[2]] => w1 = w2
    /\ Len(info) = Cardinality(InfoWrites)
    /\ InfoNames(info) = {workers[w[1]].writes[w[2]] : w \in InfoWrites}

\* Two workers have written, each its own key, before the join
C19_Witness ==
    /\ pc \in {"start", "join"}
    /\ Cardinality(InfoWrites) = 2
    /\ Len(info) = 2
    /\ info[1].name # info[2].name

\* ------------------------------------------------------------------------
\* Properties of the addon keys
\* ------------------------------------------------------------------------

\* The workers that looked their key up in the catalog
LookedUp == {addon \in DOMAIN workers : workers[addon].lookedUp}

\* C20 (as claimed): the channel-suffixed keys that distinct add-ons look up
\* in the catalog are pairwise distinct, whether they come from a validated
\* metadata record or from names2urls.
C20_LookupKeysDistinct ==
    \A a, b \in LookedUp :
        a # b => workers[a].addonKey # workers[b].addonKey

\* The key before the channel, as the claim describes it: the addonKey of a
\* validated record that carries one, otherwise the entry of names2urls
ClaimedBaseKey(addon) ==
    IF /\ ~Untrusted(addon)
       /\ "addonKey" \in DOMAIN addonsData["active"][addon]
    THEN addonsData["active"][addon]["addonKey"].val
    ELSE IF addon \in DOMAIN names2urls THEN names2urls[addon]
    ELSE PyNone

\* C21: the key a worker looks up in the catalog is the addonKey of the
\* add-on's validated metadata record when it carries one, otherwise the
\* names2urls entry; it ends with "-" and the channel exactly when the
\* resolved channel is not None; an add-on with neither key is skipped with
\* no catalog lookup and no request.
C21_LookupKey ==
    \A addon \in DOMAIN workers :
        LET channel == ManifestInfo(addon).channel
            base == ClaimedBaseKey(addon)
        IN /\ workers[addon].lookedUp =>
                  /\ base # PyNone
                  /\ channel = PyNone => workers[addon].addonKey = base
                  /\ channel # PyNone =>
                         workers[addon].addonKey = base \o <<"-">> \o channel
           /\ (workers[addon].pc \notin {"unstarted", "resolve", "crashed"}
                  /\ base = PyNone) =>
                  /\ workers[addon].pc = "noKey"
                  /\ ~workers[addon].lookedUp
                  /\ workers[addon].requests = 0
                  /\ workers[addon].addonKey = PyNone

\* One worker looked up its built-in key, another the key of its metadata
\* record with the dev channel
C21_Witness ==
    /\ N_clock \in DOMAIN workers
    /\ N_newApp \in DOMAIN workers
    /\ workers[N_clock].lookedUp
    /\ workers[N_clock].addonKey = names2urls[N_clock]
    /\ workers[N_newApp].lookedUp
    /\ workers[N_newApp].addonKey = MetadataKey(N_newApp) \o S_dash \o S_dev

\* ------------------------------------------------------------------------
\* Properties of the progress notifications and of the chunk loop
\* ------------------------------------------------------------------------

\* The response was opened with status 200, so the loop was entered
DlStreamed ==
    \/ dl.pc \in {"loop", "verify", "returned"}
    \/ dl.pc = "raised" /\ dl.resource.reachable /\ dl.resource.code = 200

\* The number of blocks that made up the bytes read so far
BlocksRead == (dl.read + ChunkSize - 1) \div ChunkSize

\* The notifications start at 0, never decrease, never exceed the declared
\* size, and carry the declared size
NotificationsOrdered ==
    /\ dl.notified # <<>>
    /\ dl.notified[1].read = 0
    /\ \A i \in 1..Len(dl.notified) :
           /\ dl.notified[i].size = dl.size
           /\ dl.notified[i].read >= 0
           /\ dl.notified[i].read <= dl.size
    /\ \A i \in 1..(Len(dl.notified) - 1) : dl.notified[i].read <= dl.notified[i + 1].read

\* C22 (as claimed): the notifications are ordered, one follows every block
\* written, and every download that ends, successfully or not, is followed by
\* one final notification; that of a successful download carries the declared
\* size.
C22_FinalNotificationAlways ==
    (DlStreamed /\ DlFinished) =>
        /\ NotificationsOrdered
        /\ Len(dl.notified) = 1 + BlocksRead + 1
        /\ dl.notified[Len(dl.notified)].read = dl.read
        /\ dl.pc = "returned" => dl.notified[Len(dl.notified)].read = dl.size

\* C22 (amended): the notifications are ordered as claimed and one follows
\* every block written; a download that returns normally sends one more
\* notification, with bytesRead equal to the declared size; a download that
\* raises sends none after the notification of its last block, and one that
\* raises before the response is opened sends none at all.
C22_FinalNotificationOnSuccess ==
    /\ (dl.pc = "raised" /\ ~DlStreamed) => dl.notified = <<>>
    /\ DlStreamed =>
           /\ NotificationsOrdered
           /\ \A i \in 2..(1 + BlocksRead) :
                  /\ dl.notified[i].read > dl.notified[i - 1].read
                  /\ dl.notified[i].read - dl.notified[i - 1].read <= ChunkSize
           /\ dl.pc \in {"loop", "verify", "raised"} =>
                  /\ Len(dl.notified) = 1 + BlocksRead
                  /\ dl.notified[Len(dl.notified)].read = dl.read
           /\ dl.pc = "returned" =>
                  /\ Len(dl.notified) = 1 + BlocksRead + 1
                  /\ dl.notified[Len(dl.notified)].read = dl.size
                  /\ dl.notified[Len(dl.notified) - 1].read = dl.size

\* A download of more than one block returned normally
C22_Witness ==
    /\ dl.pc = "returned"
    /\ BlocksRead >= 2
    /\ Len(dl.notified) = BlocksRead + 2

\* 0 <= read <= size in every state of the loop and after it
ReadWithinSize ==
    dl.pc \in {"loop", "verify", "returned"} => dl.read >= 0 /\ dl.read <= dl.size

\* One iteration asks for at most min(8192, size - read) bytes and leaves the
\* loop exactly when nothing remains or the stream gives no data
LoopStep ==
    dl.pc = "loop" =>
        /\ dl'.chunk >= 0
        /\ dl'.chunk <= Min2(ChunkSize, dl.size - dl.read)
        /\ dl'.read - dl.read <= dl'.chunk
        /\ dl'.pc = "verify" <=> (dl.size - dl.read = 0 \/ dl.remote = <<>>)
        /\ dl'.pc = "loop" => dl'.read > dl.read

\* C23: the chunk loop terminates for every declared size and every stream
\* of the model (a stream that ends early and a declared size of 0 included):
\* each iteration asks for at most min(8192, size - read) bytes, 0 <= read <=
\* size holds in every loop state, the loop is left exactly when the
\* remaining count is 0 or the stream returns no data, and every call ends.
C23_LoopTerminates ==
    /\ []ReadWithinSize
    /\ [][LoopStep]_vars
    /\ <>DlFinished

\* The loop was left because the stream ended before the declared size, after
\* at least one block
C23_Witness ==
    /\ dl.pc = "verify"
    /\ dl.read > 0
    /\ dl.read < dl.size
    /\ dl.remote = <<>>

\* ------------------------------------------------------------------------
\* Frame of installAddonUpdate
\* ------------------------------------------------------------------------

RemoveCalls == {i \in 1..Len(inst.calls) : inst.calls[i].op = "requestRemove"}

InstallCalls == {i \in 1..Len(inst.calls) : inst.calls[i].op = "installAddonBundle"}

\* Before the call, an add-on with the name of the bundle was installed and
\* not pending removal
RemovableBefore ==
    \E i \in 1..Len(inst.installedBefore) :
        /\ inst.installedBefore[i].name = inst.file.name
        /\ ~inst.installedBefore[i].isPendingRemove

\* C24: installAddonUpdate asks for a removal and invokes the installer only
\* after the three checks passed: with AddonReadBundleFailed,
\* AddonMinVersionNotMet or AddonNotTested nothing was asked of the host. On
\* the passing path the removal is requested at most once, for the installed
\* add-on with the bundle's name and only if it was not pending removal, and
\* before the installer is invoked.
C24_EffectsAfterChecks ==
    /\ inst.pc \in {"call", "versionCheck", "remove"} =>
           inst.calls = <<>> /\ inst.installed = inst.installedBefore
    /\ (inst.pc = "returned"
           /\ inst.status \in {AddonReadBundleFailed, AddonMinVersionNotMet, AddonNotTested}) =>
           inst.calls = <<>> /\ inst.installed = inst.installedBefore
    /\ inst.pc \in {"install", "returned"} =>
           /\ Cardinality(RemoveCalls) <= 1
           /\ Cardinality(InstallCalls) <= 1
           /\ \A i \in RemoveCalls : inst.calls[i].name = inst.file.name
           /\ \A i \in RemoveCalls : \A j \in InstallCalls : i < j
           /\ RemoveCalls # {} => RemovableBefore
           /\ (inst.calls # <<>> \/ inst.pc = "install") =>
                  /\ inst.file.readable /\ inst.file.requiredSupport /\ inst.file.tested
                  /\ RemovableBefore => RemoveCalls # {}
           /\ \A i \in 1..Len(inst.installed) :
                  /\ inst.installed[i].name = inst.installedBefore[i].name
                  /\ inst.installed[i].isPendingRemove # inst.installedBefore[i].isPendingRemove
                         => (RemoveCalls # {} /\ inst.installed[i].name = inst.file.name)
    /\ (inst.pc = "returned"
           /\ inst.status \in {AddonInstallSuccess, AddonInstallGenericError}) =>
           Cardinality(InstallCalls) = 1

\* The installed add-on with the bundle's name was asked to remove itself and
\* the installer was invoked after that
C24_Witness ==
    /\ inst.pc = "returned"
    /\ Len(inst.calls) = 2
    /\ inst.calls[1].op = "requestRemove"
    /\ inst.calls[2].op = "installAddonBundle"

====
